---- MODULE Spec2Model ----
(***************************************************************************)
(* Model of the package initializer src/peft/tuners/vera/__init__.py:      *)
(* the module namespace built by the top-level statements, Python's        *)
(* attribute access on the module (normal lookup first, then the           *)
(* module-level __getattr__ hook), and the hook itself, which imports the  *)
(* .bnb submodule on demand behind two capability predicates.              *)
(***************************************************************************)
EXTENDS Naturals, Sequences, FiniteSets, TLC

\* Number of attribute accesses explored in one run.
MaxAccesses == 3

VARIABLES
    is_bnb_available,        \* what is_bnb_available() returns when called now
    is_bnb_4bit_available,   \* what is_bnb_4bit_available() returns when called now
    sys_modules,             \* submodules of the package that are loaded
    globals,                 \* the module's namespace: name -> object
    __all__,                 \* the export list
    exec_count,              \* submodule -> times its body has been executed
    last,                    \* the latest attribute access and its outcome
    prev,                    \* the attribute access before the latest one
    n_calls,                 \* attribute accesses made so far
    n_resolved               \* accesses of a deferred name that __getattr__ answered

vars == <<is_bnb_available, is_bnb_4bit_available, sys_modules, globals,
          __all__, exec_count, last, prev, n_calls, n_resolved>>

----------------------------------------------------------------------------
\* Values

\* The module's own name, as the f-string on the last line reads it.
__name__ == "peft.tuners.vera"

\* The two names the hook knows.
Deferred == {"VeraLinear8bitLt", "VeraLinear4bit"}

\* The literal assigned to __all__.
EagerExports ==
    <<"VeraConfig", "VeraLayer", "VeraModel", "VeraLinear", "VeraQuantLinear">>

\* The sibling modules the file imports from.
Submodules == {"config", "gptq", "layer", "model", "bnb"}

\* The attribute names a caller asks for.
Names ==
    {"VeraConfig", "VeraLayer", "VeraModel", "VeraLinear", "VeraQuantLinear",
     "VeraLinear8bitLt", "VeraLinear4bit",
     "NotARealSymbol", "veralinear4bit", "bnb", "is_bnb_available"}

Range(s) == {s[i] : i \in DOMAIN s}

\* Python's None, and "no exception".
None == <<>>
NoException == [type |-> "", msg |-> <<>>]

\* The object a provider module holds under a name.
Object(module, attr) == <<module, attr>>

\* The state of the package module that statements read and write.
ModuleState(sm, g, al, ec) ==
    [sys_modules |-> sm, globals |-> g, all |-> al, exec_count |-> ec]

----------------------------------------------------------------------------
\* Statements

\* `from .<submodule> import <attr>`: the submodule's body runs only when it is
\* not loaded yet, and loading binds the submodule in the package's namespace.
\* The value is the submodule's attribute; the caller binds it.
ImportFrom(m, submodule, attr) ==
    IF submodule \in m.sys_modules
    THEN [mod |-> m, value |-> Object(submodule, attr)]
    ELSE [mod |-> [m EXCEPT
                     !.sys_modules = @ \cup {submodule},
                     !.globals = (submodule :> Object("module", submodule)) @@ @,
                     !.exec_count = [@ EXCEPT ![submodule] = @ + 1]],
          value |-> Object(submodule, attr)]

\* A top-level binding of a name in the module namespace.
Bind(m, name, value) ==
    [m EXCEPT !.globals = (name :> value) @@ @]

\* A top-level `from .<submodule> import <attr>`.
TopLevelImport(m, submodule, attr) ==
    LET i == ImportFrom(m, submodule, attr) IN Bind(i.mod, attr, i.value)

\* The module before its first statement.
EmptyModule ==
    ModuleState({}, ("__name__" :> Object("str", __name__)), <<>>,
                [s \in Submodules |-> 0])

\* A load that forgets `from .gptq import VeraQuantLinear`.
ModuleInit_MissingGptq ==
    LET m0 == Bind(Bind(EmptyModule,
                   "is_bnb_4bit_available",
                   Object("peft.import_utils", "is_bnb_4bit_available")),
                   "is_bnb_available",
                   Object("peft.import_utils", "is_bnb_available"))
        m1 == TopLevelImport(m0, "config", "VeraConfig")
        m3 == TopLevelImport(m1, "layer", "VeraLayer")
        m4 == TopLevelImport(m3, "layer", "VeraLinear")
        m5 == TopLevelImport(m4, "model", "VeraModel")
        m6 == [Bind(m5, "__all__", Object("list", "__all__"))
                 EXCEPT !.all = EagerExports]
    IN Bind(m6, "__getattr__", Object("function", "__getattr__"))

\* A load that also imports the two quantized layers from .bnb at the top.
ModuleInit_EagerBnb ==
    LET m0 == Bind(Bind(EmptyModule,
                   "is_bnb_4bit_available",
                   Object("peft.import_utils", "is_bnb_4bit_available")),
                   "is_bnb_available",
                   Object("peft.import_utils", "is_bnb_available"))
        m1 == TopLevelImport(m0, "config", "VeraConfig")
        m2 == TopLevelImport(m1, "gptq", "VeraQuantLinear")
        m3 == TopLevelImport(m2, "layer", "VeraLayer")
        m4 == TopLevelImport(m3, "layer", "VeraLinear")
        m5 == TopLevelImport(m4, "model", "VeraModel")
        m6 == [Bind(m5, "__all__", Object("list", "__all__"))
                 EXCEPT !.all = EagerExports]
        m7 == Bind(m6, "__getattr__", Object("function", "__getattr__"))
    IN ImportFrom(m7, "bnb", "VeraLinear8bitLt").mod

\* The module after its top-level statements have run, in order.
ModuleInit ==
    LET m0 == Bind(Bind(EmptyModule,
                   "is_bnb_4bit_available",
                   Object("peft.import_utils", "is_bnb_4bit_available")),
                   "is_bnb_available",
                   Object("peft.import_utils", "is_bnb_available"))
        m1 == TopLevelImport(m0, "config", "VeraConfig")
        m2 == TopLevelImport(m1, "gptq", "VeraQuantLinear")
        m3 == TopLevelImport(m2, "layer", "VeraLayer")
        m4 == TopLevelImport(m3, "layer", "VeraLinear")
        m5 == TopLevelImport(m4, "model", "VeraModel")
        m6 == [Bind(m5, "__all__", Object("list", "__all__"))
                 EXCEPT !.all = EagerExports]
    IN Bind(m6, "__getattr__", Object("function", "__getattr__"))

----------------------------------------------------------------------------
\* The hook

\* The environment the predicates read.
Env(p8, p4) == [is_bnb_available |-> p8, is_bnb_4bit_available |-> p4]

Return(value, evaluated, m) ==
    [kind |-> "return", value |-> value, exc |-> NoException,
     evaluated |-> evaluated, mod |-> m]

Raise(exc, evaluated, m) ==
    [kind |-> "raise", value |-> None, exc |-> exc,
     evaluated |-> evaluated, mod |-> m]

\* A message that names the module only.
AttributeErrorMessage_NoName(name) ==
    <<"module ", __name__, " has no attribute ">>

\* f"module {__name__} has no attribute {name}", as its parts.
AttributeErrorMessage(name) ==
    <<"module ", __name__, " has no attribute ", name>>

\* A last line that returns nothing instead of raising.
Fallthrough_NoRaise(name, evaluated, m) ==
    Return(None, evaluated, m)

\* raise AttributeError(...)
Fallthrough(name, evaluated, m) ==
    Raise([type |-> "AttributeError", msg |-> AttributeErrorMessage(name)],
          evaluated, m)

\* A first condition that does not ask the predicate.
Cond8bit_NoPredicate(name, env) ==
    [taken |-> name = "VeraLinear8bitLt", evaluated |-> {}]

\* A first condition that asks the 4-bit predicate.
Cond8bit_WrongPredicate(name, env) ==
    IF name = "VeraLinear8bitLt"
    THEN [taken |-> env.is_bnb_4bit_available,
          evaluated |-> {"is_bnb_4bit_available"}]
    ELSE [taken |-> FALSE, evaluated |-> {}]

\* (name == "VeraLinear8bitLt") and is_bnb_available(): `and` calls the
\* predicate only when the name matches.
Cond8bit(name, env) ==
    IF name = "VeraLinear8bitLt"
    THEN [taken |-> env.is_bnb_available, evaluated |-> {"is_bnb_available"}]
    ELSE [taken |-> FALSE, evaluated |-> {}]

\* (name == "VeraLinear4bit") and is_bnb_4bit_available()
Cond4bit(name, env) ==
    IF name = "VeraLinear4bit"
    THEN [taken |-> env.is_bnb_4bit_available,
          evaluated |-> {"is_bnb_4bit_available"}]
    ELSE [taken |-> FALSE, evaluated |-> {}]

\* from .bnb import VeraLinear8bitLt; return VeraLinear8bitLt
Body8bit(evaluated, m) ==
    LET i == ImportFrom(m, "bnb", "VeraLinear8bitLt")
    IN Return(i.value, evaluated, i.mod)

\* A second body copied from the first without changing the name.
Body4bit_CopyPaste(evaluated, m) ==
    LET i == ImportFrom(m, "bnb", "VeraLinear8bitLt")
    IN Return(i.value, evaluated, i.mod)

\* A second body that keeps the resolved object in the module namespace.
Body4bit_Caching(evaluated, m) ==
    LET i == ImportFrom(m, "bnb", "VeraLinear4bit")
    IN Return(i.value, evaluated, Bind(i.mod, "VeraLinear4bit", i.value))

\* A second body that registers the resolved name in __all__.
Body4bit_Exporting(evaluated, m) ==
    LET i == ImportFrom(m, "bnb", "VeraLinear4bit")
    IN Return(i.value, evaluated,
              [i.mod EXCEPT !.all = Append(@, "VeraLinear4bit")])

\* from .bnb import VeraLinear4bit; return VeraLinear4bit
Body4bit(evaluated, m) ==
    LET i == ImportFrom(m, "bnb", "VeraLinear4bit")
    IN Return(i.value, evaluated, i.mod)

\* A hook that imports .bnb for a known name before testing its predicate.
getattr_ImportFirst(name, env, m) ==
    LET mi == IF name \in Deferred THEN ImportFrom(m, "bnb", name).mod ELSE m
        c8 == Cond8bit(name, env)
    IN IF c8.taken
       THEN Body8bit(c8.evaluated, mi)
       ELSE LET c4 == Cond4bit(name, env)
                ev == c8.evaluated \cup c4.evaluated
            IN IF c4.taken
               THEN Body4bit(ev, mi)
               ELSE Fallthrough(name, ev, mi)

\* def __getattr__(name)
__getattr__(name, env, m) ==
    LET c8 == Cond8bit(name, env)
    IN IF c8.taken
       THEN Body8bit(c8.evaluated, m)
       ELSE LET c4 == Cond4bit(name, env)
                ev == c8.evaluated \cup c4.evaluated
            IN IF c4.taken
               THEN Body4bit(ev, m)
               ELSE Fallthrough(name, ev, m)

\* Attribute access on the module: the namespace first; the hook defined in
\* the module is called only for a name the namespace does not hold.
ModuleAttributeAccess(name, env, m) ==
    IF name \in DOMAIN m.globals
    THEN [via |-> "normal"] @@ Return(m.globals[name], {}, m)
    ELSE [via |-> "getattr"] @@ __getattr__(name, env, m)

----------------------------------------------------------------------------
\* The state machine

CurrentEnv == Env(is_bnb_available, is_bnb_4bit_available)
CurrentModule == ModuleState(sys_modules, globals, __all__, exec_count)

NoAccess ==
    [name |-> "", via |-> "none", kind |-> "none", value |-> None,
     exc |-> NoException, evaluated |-> {}, env |-> Env(FALSE, FALSE)]

\* The package has just been imported, in any backend environment.
Init ==
    /\ is_bnb_available \in BOOLEAN
    /\ is_bnb_4bit_available \in BOOLEAN
    /\ sys_modules = ModuleInit.sys_modules
    /\ globals = ModuleInit.globals
    /\ __all__ = ModuleInit.all
    /\ exec_count = ModuleInit.exec_count
    /\ last = NoAccess
    /\ prev = NoAccess
    /\ n_calls = 0
    /\ n_resolved = 0

\* A caller reads attribute `name` of the module.
Access(name) ==
    /\ n_calls < MaxAccesses
    /\ LET r == ModuleAttributeAccess(name, CurrentEnv, CurrentModule)
       IN /\ sys_modules' = r.mod.sys_modules
          /\ globals' = r.mod.globals
          /\ __all__' = r.mod.all
          /\ exec_count' = r.mod.exec_count
          /\ last' = [name |-> name, via |-> r.via, kind |-> r.kind,
                      value |-> r.value, exc |-> r.exc,
                      evaluated |-> r.evaluated, env |-> CurrentEnv]
          /\ n_resolved' = IF r.via = "getattr" /\ r.kind = "return"
                              /\ name \in Deferred
                           THEN n_resolved + 1 ELSE n_resolved
    /\ prev' = last
    /\ n_calls' = n_calls + 1
    /\ UNCHANGED <<is_bnb_available, is_bnb_4bit_available>>

\* The 8-bit backend appears or disappears between two accesses.
Bnb8bitChanges ==
    /\ is_bnb_available' = ~is_bnb_available
    /\ UNCHANGED <<is_bnb_4bit_available, sys_modules, globals, __all__,
                   exec_count, last, prev, n_calls, n_resolved>>

\* The 4-bit backend appears or disappears between two accesses.
Bnb4bitChanges ==
    /\ is_bnb_4bit_available' = ~is_bnb_4bit_available
    /\ UNCHANGED <<is_bnb_available, sys_modules, globals, __all__,
                   exec_count, last, prev, n_calls, n_resolved>>

Next ==
    \/ \E name \in Names : Access(name)
    \/ Bnb8bitChanges
    \/ Bnb4bitChanges

Spec == Init /\ [][Next]_vars

----------------------------------------------------------------------------
\* Properties

ViaHook == last.via = "getattr"
Outcome(r) == <<r.kind, r.value, r.exc>>
RaisedAttributeError(a) ==
    a.kind = "raise" /\ a.value = None /\ a.exc.type = "AttributeError"

\* C1: a call of __getattr__("VeraLinear8bitLt") returns the object that .bnb
\* holds under that name when is_bnb_available() is true, and raises
\* AttributeError, returning nothing, when it is false.
C1_Resolve8bit ==
    (ViaHook /\ last.name = "VeraLinear8bitLt") =>
        IF last.env.is_bnb_available
        THEN /\ last.kind = "return"
             /\ last.value = Object("bnb", "VeraLinear8bitLt")
             /\ "bnb" \in sys_modules
        ELSE RaisedAttributeError(last)

C1_Witness ==
    /\ ViaHook /\ last.name = "VeraLinear8bitLt" /\ last.kind = "return"
    /\ last.env = Env(TRUE, FALSE)

\* C2: a call of __getattr__("VeraLinear4bit") returns the object that .bnb
\* holds under that name when is_bnb_4bit_available() is true, and raises
\* AttributeError when it is false.
C2_Resolve4bit ==
    (ViaHook /\ last.name = "VeraLinear4bit") =>
        IF last.env.is_bnb_4bit_available
        THEN /\ last.kind = "return"
             /\ last.value = Object("bnb", "VeraLinear4bit")
             /\ "bnb" \in sys_modules
        ELSE RaisedAttributeError(last)

C2_Witness ==
    /\ ViaHook /\ last.name = "VeraLinear4bit" /\ last.kind = "return"
    /\ last.value = Object("bnb", "VeraLinear4bit")
    /\ last.env = Env(FALSE, TRUE)

\* C3: a name that reaches __getattr__ and is neither deferred name raises
\* AttributeError, whatever the two predicates say and whatever was accessed
\* before; no object is returned.
C3_UnknownNameRaises ==
    (ViaHook /\ last.name \notin Deferred) => RaisedAttributeError(last)

C3_Witness ==
    /\ ViaHook /\ last.name = "NotARealSymbol" /\ last.kind = "raise"
    /\ last.env = Env(TRUE, TRUE)
    /\ prev.via = "getattr" /\ prev.kind = "return"

\* C4: every error __getattr__ raises is an AttributeError whose message
\* holds the module's name and exactly the requested name, for an unknown
\* name and for a deferred name whose predicate is false alike.
C4_ErrorNamesModuleAndAttribute ==
    /\ last.kind \in {"none", "return", "raise"}
    /\ last.kind = "raise" =>
        /\ last.exc.type = "AttributeError"
        /\ last.exc.msg = <<"module ", __name__, " has no attribute ", last.name>>
        /\ __name__ \in Range(last.exc.msg)
        /\ last.exc.msg[Len(last.exc.msg)] = last.name

C4_Witness ==
    /\ last.kind = "raise" /\ last.name \in Deferred
    /\ prev.kind = "raise" /\ prev.name \notin Deferred
    /\ prev.exc.type = last.exc.type

\* C5: every name of __all__ is bound in the loaded module, and an access to
\* it returns an object by normal lookup without calling __getattr__,
\* whatever the two predicates say.
C5_EagerNamesResolveNormally ==
    /\ \A n \in Range(__all__) : n \in DOMAIN globals /\ globals[n] # None
    /\ last.name \in Range(EagerExports) =>
        /\ last.via = "normal"
        /\ last.kind = "return"
        /\ last.value # None
        /\ last.evaluated = {}

C5_Witness ==
    /\ last.name = "VeraQuantLinear" /\ last.via = "normal"
    /\ last.env = Env(FALSE, FALSE)

\* C6: .bnb is not loaded by the module's top-level statements; it is loaded
\* exactly when a deferred name has been resolved successfully, its body
\* runs once, on the first such resolution, and never in a run whose accesses
\* all fail.
C6_BnbImportedOnceOnDemand ==
    /\ n_calls = 0 => "bnb" \notin sys_modules
    /\ "bnb" \in sys_modules <=> n_resolved > 0
    /\ exec_count["bnb"] = IF n_resolved > 0 THEN 1 ELSE 0

C6_Witness ==
    /\ n_resolved >= 2 /\ exec_count["bnb"] = 1
    /\ prev.kind = "return" /\ prev.name = "VeraLinear8bitLt"
    /\ last.kind = "return" /\ last.name = "VeraLinear4bit"

\* C7: a resolved deferred name is never stored in the module namespace, so
\* every access to it goes through __getattr__, which asks its predicate
\* again and returns an object only while that predicate holds; and what
\* __getattr__ answers for a name and a pair of predicate values is the same
\* in every reachable module state as in the freshly loaded module.
C7_StatelessResolver ==
    /\ Deferred \cap DOMAIN globals = {}
    /\ last.name \in Deferred =>
        /\ last.via = "getattr"
        /\ last.evaluated # {}
        /\ last.kind = "return" => \A p \in last.evaluated : last.env[p]
    /\ \A n \in Names, p8 \in BOOLEAN, p4 \in BOOLEAN :
        Outcome(__getattr__(n, Env(p8, p4), CurrentModule))
            = Outcome(__getattr__(n, Env(p8, p4), ModuleInit))

C7_Witness ==
    /\ prev.name = "VeraLinear4bit" /\ prev.via = "getattr" /\ prev.kind = "return"
    /\ last.name = "VeraLinear4bit" /\ last.via = "getattr" /\ last.kind = "raise"

ModuleUnchanged ==
    /\ sys_modules' = sys_modules
    /\ globals' = globals
    /\ __all__' = __all__
    /\ exec_count' = exec_count

\* C8: with the predicates as they were, a second call of __getattr__ with the
\* same deferred name returns the same object as the first and leaves the
\* module state as the first call left it; a call that raises leaves the
\* module state as it was before the call.
C8_IdempotentResolution ==
    [][ n_calls' = n_calls + 1 =>
          /\ last'.kind = "raise" => ModuleUnchanged
          /\ ( /\ last.via = "getattr" /\ last.kind = "return"
               /\ last'.name = last.name
               /\ last'.env = last.env )
             => /\ last'.via = "getattr"
                /\ last'.kind = "return"
                /\ last'.value = last.value
                /\ ModuleUnchanged ]_vars

C8_Witness ==
    /\ prev.name = "VeraLinear8bitLt" /\ prev.via = "getattr" /\ prev.kind = "return"
    /\ last.name = "VeraLinear8bitLt" /\ last.via = "getattr" /\ last.kind = "return"
    /\ prev.env = last.env
    /\ prev.value = last.value

\* C9: __all__ holds exactly the five eager names, in the order of the
\* literal, after the load and after every access, successful or failing; the
\* two deferred names are never in it.
C9_AllIsFixed ==
    /\ __all__ = <<"VeraConfig", "VeraLayer", "VeraModel", "VeraLinear",
                   "VeraQuantLinear">>
    /\ Deferred \cap Range(__all__) = {}

C9_Witness ==
    /\ prev.via = "getattr" /\ prev.kind = "raise"
    /\ last.via = "getattr" /\ last.kind = "return" /\ last.name = "VeraLinear4bit"

\* C10: each deferred name is gated by its own predicate alone: VeraLinear4bit
\* raises when is_bnb_4bit_available() is false even if is_bnb_available()
\* is true, VeraLinear8bitLt is returned when is_bnb_available() is true even
\* if is_bnb_4bit_available() is false, the only predicate a call evaluates
\* is the one of the requested name, and any other name evaluates none.
C10_OwnPredicateOnly ==
    ViaHook =>
        /\ (last.name = "VeraLinear4bit" /\ ~last.env.is_bnb_4bit_available)
             => last.kind = "raise"
        /\ (last.name = "VeraLinear8bitLt" /\ last.env.is_bnb_available)
             => last.kind = "return"
        /\ last.evaluated =
             IF last.name = "VeraLinear8bitLt" THEN {"is_bnb_available"}
             ELSE IF last.name = "VeraLinear4bit" THEN {"is_bnb_4bit_available"}
             ELSE {}

C10_Witness ==
    /\ ViaHook /\ last.name = "VeraLinear4bit" /\ last.kind = "raise"
    /\ last.env = Env(TRUE, FALSE)
    /\ last.evaluated = {"is_bnb_4bit_available"}

====
